---- MODULE Spec2Model ----
(***************************************************************************)
(* Model of the geometry transform library (src/geometry.py, duplicated   *)
(* in src/transformations.py): apply_rotation, apply_displacement,        *)
(* apply_transformations and create_symmetry over numpy arrays.           *)
(*                                                                         *)
(* Numbers.  The code computes in floating point; the model computes the  *)
(* same formulas exactly, in the ring Z[1/2][sqrt 3], which holds the     *)
(* cosine and sine of every multiple of 30 degrees.  A number             *)
(* (a + b*sqrt3) / 2^e is the triple <<a, b, e>> with e minimal.  Angles  *)
(* (radians in the code) are counted in ticks of pi/6.                    *)
(*                                                                         *)
(* Arrays.  A numpy array is [shape, data]: shape a sequence of naturals, *)
(* data a function from the index tuples of that shape (1-based) to       *)
(* numbers.  A 0-d array has shape <<>> and the single index <<>>.        *)
(***************************************************************************)
EXTENDS Integers, Sequences, FiniteSets, TLC

VARIABLES heap, last

vars == <<heap, last>>

----------------------------------------------------------------------------
(* Bounds of the model. *)

\* rows of the exhaustively enumerated (N,2) point sets
MaxPoints == 2
\* coordinates of enumerated points and displacements: 0 and MaxCoord
MaxCoord == 1
\* largest dimension of the other input shapes
MaxDim == 3
\* angles range over -MaxAngle..MaxAngle ticks
MaxAngle == 6
\* N_symmetry and N_partial range up to MaxSym
MaxSym == 6

----------------------------------------------------------------------------
(* Exact arithmetic on (a + b*sqrt3) / 2^e. *)

Abs(n) == IF n < 0 THEN -n ELSE n

RECURSIVE Pow2(_)
Pow2(e) == IF e = 0 THEN 1 ELSE 2 * Pow2(e - 1)

RECURSIVE Norm(_, _, _)
Norm(a, b, e) ==
    IF e > 0 /\ a % 2 = 0 /\ b % 2 = 0
    THEN Norm(a \div 2, b \div 2, e - 1)
    ELSE <<a, b, e>>

Whole(n) == <<n, 0, 0>>

Zero == Whole(0)

One == Whole(1)

Plus(x, y) ==
    LET e == IF x[3] > y[3] THEN x[3] ELSE y[3]
        fx == Pow2(e - x[3])
        fy == Pow2(e - y[3])
    IN  Norm(x[1] * fx + y[1] * fy, x[2] * fx + y[2] * fy, e)

Times(x, y) ==
    Norm(x[1] * y[1] + 3 * x[2] * y[2], x[1] * y[2] + x[2] * y[1], x[3] + y[3])

Neg(x) == <<-x[1], -x[2], x[3]>>

----------------------------------------------------------------------------
(* Angles and trigonometry.  CosTable[t + 1] = cos(t * pi/6). *)

CosTable ==
    << <<1, 0, 0>>,  <<0, 1, 1>>,  <<1, 0, 1>>,  <<0, 0, 0>>,
       <<-1, 0, 1>>, <<0, -1, 1>>, <<-1, 0, 0>>, <<0, -1, 1>>,
       <<-1, 0, 1>>, <<0, 0, 0>>,  <<1, 0, 1>>,  <<0, 1, 1>> >>

TicksPerTurn == Len(CosTable)

QuarterTurn == TicksPerTurn \div 4

np_cos(t) == CosTable[(t % TicksPerTurn) + 1]

np_sin(t) == np_cos(t - QuarterTurn)

\* variant: the conversion divides by 360
np_deg2rad_Half(deg) == (deg * (TicksPerTurn \div 2)) \div 360

\* np.deg2rad(x) = x * pi / 180, pi being half a turn
np_deg2rad(deg) == (deg * (TicksPerTurn \div 2)) \div 180

----------------------------------------------------------------------------
(* numpy arrays. *)

Last(s) == s[Len(s)]

Front(s) == SubSeq(s, 1, Len(s) - 1)

RECURSIVE Reverse(_)
Reverse(s) == IF s = <<>> THEN <<>> ELSE Append(Reverse(Tail(s)), Head(s))

RECURSIVE Indices(_)
Indices(shape) ==
    IF shape = <<>> THEN {<<>>}
    ELSE {Append(idx, k) : idx \in Indices(Front(shape)), k \in 1..Last(shape)}

Array(shape, data) == [shape |-> shape, data |-> data]

np_shape(x) == x.shape

\* x.T : the axes reversed
np_T(x) ==
    LET at(idx) == x.data[Reverse(idx)]
    IN  Array(Reverse(x.shape), [idx \in Indices(Reverse(x.shape)) |-> at(idx)])

\* np.arange(n) : 0, 1, ..., n-1 ; empty when n <= 0
np_arange(n) == [k \in 1..n |-> k - 1]

(* The outcome of a call: a returned array, or the exception raised, with  *)
(* the message and the values the message reports.                         *)
NoArray == [shape |-> <<0>>, data |-> <<>>]

Ok(v) == [exc |-> "none", msg |-> "", info |-> <<>>, value |-> v]

Raise(exc, msg, info) == [exc |-> exc, msg |-> msg, info |-> info, value |-> NoArray]

IsOk(out) == out.exc = "none"

RECURSIVE Sum(_)
Sum(terms) == IF terms = <<>> THEN Zero ELSE Plus(Sum(Front(terms)), Last(terms))

(* a.dot(b) for a 2-d array a: the sum runs over the last axis of a and   *)
(* the only axis (b 1-d) or the second-to-last axis (b of 2 or more       *)
(* dimensions) of b; a 0-d b multiplies a elementwise.                     *)
np_dot(a, b) ==
    LET n  == Len(b.shape)
        ka == Last(a.shape)
    IN  IF n = 0
        THEN LET el(idx) == Times(a.data[idx], b.data[<<>>])
             IN  Ok(Array(a.shape, [idx \in Indices(a.shape) |-> el(idx)]))
        ELSE IF n = 1
        THEN IF ka # b.shape[1]
             THEN Raise("ValueError", "shapes not aligned", b.shape)
             ELSE LET el(idx) ==
                          Sum([k \in 1..ka |->
                                  Times(a.data[<<idx[1], k>>], b.data[<<k>>])])
                      out == Front(a.shape)
                  IN  Ok(Array(out, [idx \in Indices(out) |-> el(idx)]))
        ELSE IF ka # b.shape[n - 1]
             THEN Raise("ValueError", "shapes not aligned", b.shape)
             ELSE LET lead == SubSeq(b.shape, 1, n - 2)
                      el(idx) ==
                          LET j == SubSeq(idx, 2, n - 1)
                          IN  Sum([k \in 1..ka |->
                                      Times(a.data[<<idx[1], k>>],
                                            b.data[j \o <<k, idx[n]>>])])
                      out == Front(a.shape) \o lead \o <<Last(b.shape)>>
                  IN  Ok(Array(out, [idx \in Indices(out) |-> el(idx)]))

(* x + y with numpy broadcasting: shapes are aligned at the right; two    *)
(* dimensions are compatible when equal or when one of them is 1.          *)
DimAt(shape, rank, i) ==
    LET off == rank - Len(shape)
    IN  IF i <= off THEN 1 ELSE shape[i - off]

BroadcastRank(sx, sy) == IF Len(sx) > Len(sy) THEN Len(sx) ELSE Len(sy)

BroadcastOk(sx, sy) ==
    LET r == BroadcastRank(sx, sy)
    IN  \A i \in 1..r :
            \/ DimAt(sx, r, i) = DimAt(sy, r, i)
            \/ DimAt(sx, r, i) = 1
            \/ DimAt(sy, r, i) = 1

BroadcastShape(sx, sy) ==
    LET r == BroadcastRank(sx, sy)
    IN  [i \in 1..r |-> IF DimAt(sx, r, i) = 1 THEN DimAt(sy, r, i) ELSE DimAt(sx, r, i)]

\* the index of operand x that result index idx reads
BroadcastIndex(x, r, idx) ==
    LET off == r - Len(x.shape)
    IN  [i \in 1..Len(x.shape) |-> IF x.shape[i] = 1 THEN 1 ELSE idx[i + off]]

np_add(x, y) ==
    IF ~BroadcastOk(x.shape, y.shape)
    THEN Raise("ValueError", "operands could not be broadcast together", y.shape)
    ELSE LET r == BroadcastRank(x.shape, y.shape)
             el(idx) == Plus(x.data[BroadcastIndex(x, r, idx)],
                             y.data[BroadcastIndex(y, r, idx)])
             out == BroadcastShape(x.shape, y.shape)
         IN  Ok(Array(out, [idx \in Indices(out) |-> el(idx)]))

----------------------------------------------------------------------------
(* The library. *)

\* variant: the minus sign of the sine is lost
rotation_matrix_NoMinus(rotation_angle) ==
    LET el(idx) ==
            IF idx[1] = idx[2] THEN np_cos(rotation_angle) ELSE np_sin(rotation_angle)
    IN  Array(<<2, 2>>, [idx \in Indices(<<2, 2>>) |-> el(idx)])

\* variant: the minus sign is on the other sine (a clockwise rotation)
rotation_matrix_Clockwise(rotation_angle) ==
    LET el(idx) ==
            IF idx[1] = idx[2] THEN np_cos(rotation_angle)
            ELSE IF idx[1] = 1 THEN np_sin(rotation_angle)
            ELSE Neg(np_sin(rotation_angle))
    IN  Array(<<2, 2>>, [idx \in Indices(<<2, 2>>) |-> el(idx)])

\* the 2x2 matrix [[cos a, -sin a], [sin a, cos a]]
rotation_matrix(rotation_angle) ==
    LET el(idx) ==
            IF idx[1] = idx[2] THEN np_cos(rotation_angle)
            ELSE IF idx[1] = 1 THEN Neg(np_sin(rotation_angle))
            ELSE np_sin(rotation_angle)
    IN  Array(<<2, 2>>, [idx \in Indices(<<2, 2>>) |-> el(idx)])

\* np.shape(strings)[-1] != 2, once the shape is known to have a last entry
BadStringsShape(strings) == Last(np_shape(strings)) # 2

StringsShapeError(strings) ==
    Raise("ValueError", "strings needs to have shape (N, 2)", np_shape(strings))

\* indexing the empty shape tuple of a 0-d input with [-1]
ShapeIndexError == Raise("IndexError", "tuple index out of range", <<>>)

\* variant: the product is returned without the final transposition
apply_rotation_NoTranspose(strings, rotation_angle) ==
    IF np_shape(strings) = <<>> THEN ShapeIndexError
    ELSE IF BadStringsShape(strings) THEN StringsShapeError(strings)
    ELSE np_dot(rotation_matrix(rotation_angle), np_T(strings))

apply_rotation(strings, rotation_angle) ==
    IF np_shape(strings) = <<>> THEN ShapeIndexError
    ELSE IF BadStringsShape(strings) THEN StringsShapeError(strings)
    ELSE LET prod == np_dot(rotation_matrix(rotation_angle), np_T(strings))
         IN  IF IsOk(prod) THEN Ok(np_T(prod.value)) ELSE prod

\* variant: only the last dimension is checked, as for strings
BadDisplacementShape_LastOnly(displacement) ==
    np_shape(displacement) = <<>> \/ Last(np_shape(displacement)) # 2

BadDisplacementShape(displacement) == np_shape(displacement) # <<2>>

DisplacementShapeError(displacement) ==
    Raise("ValueError", "displacement needs to have shape (2,)", np_shape(displacement))

apply_displacement(strings, displacement) ==
    IF BadDisplacementShape(displacement) THEN DisplacementShapeError(displacement)
    ELSE np_add(displacement, strings)

\* variant: the displacement is applied before the rotation
apply_transformations_DisplaceFirst(strings, displacement, rotation_angle) ==
    IF np_shape(strings) = <<>> THEN ShapeIndexError
    ELSE IF BadStringsShape(strings) THEN StringsShapeError(strings)
    ELSE LET moved_strings == apply_displacement(strings, displacement)
         IN  IF IsOk(moved_strings)
             THEN apply_rotation(moved_strings.value, rotation_angle)
             ELSE moved_strings

apply_transformations(strings, displacement, rotation_angle) ==
    IF np_shape(strings) = <<>> THEN ShapeIndexError
    ELSE IF BadStringsShape(strings) THEN StringsShapeError(strings)
    ELSE LET moved_strings == apply_rotation(strings, rotation_angle)
         IN  IF IsOk(moved_strings)
             THEN apply_displacement(moved_strings.value, displacement)
             ELSE moved_strings

\* 360 / N_symmetry, in degrees (N_symmetry # 0)
SymDegrees(N_symmetry) ==
    IF N_symmetry > 0 THEN 360 \div N_symmetry ELSE -(360 \div (-N_symmetry))

\* variant: the comparison is strict
PartialRejected_Strict(N_symmetry, N_partial) == N_partial > N_symmetry

\* if N_partial >= N_symmetry: raise ValueError
PartialRejected(N_symmetry, N_partial) == N_partial >= N_symmetry

\* variant: the steps of a partial shape start at 1
stepper_FromOne(N_symmetry, N_partial) ==
    IF N_partial = 0 THEN np_arange(N_symmetry) ELSE [k \in 1..N_partial |-> k]

\* np.arange(N_symmetry) if N_partial == 0 else np.arange(N_partial)
stepper(N_symmetry, N_partial) ==
    IF N_partial = 0 THEN np_arange(N_symmetry) ELSE np_arange(N_partial)

create_symmetry(N_symmetry, starting_angle, N_partial) ==
    IF PartialRejected(N_symmetry, N_partial)
    THEN Raise("ValueError", "N_partial is larger than N_symmetry",
               <<N_partial, N_symmetry>>)
    ELSE IF N_symmetry = 0
    THEN Raise("ZeroDivisionError", "division by zero", <<>>)
    ELSE LET sym_angle  == np_deg2rad(SymDegrees(N_symmetry))
             steps      == stepper(N_symmetry, N_partial)
             all_angles == [k \in DOMAIN steps |-> starting_angle + sym_angle * steps[k]]
             el(idx)    == IF idx[1] = 1 THEN np_cos(all_angles[idx[2]])
                           ELSE np_sin(all_angles[idx[2]])
             rows       == <<2, Len(all_angles)>>
         IN  Ok(np_T(Array(rows, [idx \in Indices(rows) |-> el(idx)])))

----------------------------------------------------------------------------
(* The inputs a caller passes. *)

Coords == {Whole(0), Whole(MaxCoord)}

Angles == -MaxAngle..MaxAngle

\* every array of the given shape over Coords
ArraysOf(shape) == {[shape |-> shape, data |-> d] : d \in [Indices(shape) -> Coords]}

\* the array of the given shape filled 0, 1, 2, ... in row-major order
RECURSIVE Offset(_, _)
Offset(idx, shape) ==
    IF idx = <<>> THEN 0
    ELSE Offset(Front(idx), Front(shape)) * Last(shape) + Last(idx) - 1

Ramp(shape) ==
    LET el(idx) == Whole(Offset(idx, shape))
    IN  Array(shape, [idx \in Indices(shape) |-> el(idx)])

\* point sets of shape (N,2), N = 0..MaxPoints
PointSets == UNION {ArraysOf(<<n, 2>>) : n \in 0..MaxPoints}

\* shapes of 0 to 3 dimensions other than (N,2)
OtherShapes ==
    {<<>>}
    \cup {<<n>> : n \in 0..MaxDim}
    \cup {<<n, m>> : n \in 0..MaxPoints, m \in (0..MaxDim) \ {2}}
    \cup {<<a, b, c>> : a \in 1..MaxPoints, b \in 1..MaxDim, c \in 1..MaxDim}

StringsInputs == PointSets \cup {Ramp(sh) : sh \in OtherShapes}

DisplacementInputs ==
    ArraysOf(<<2>>)
    \cup {Ramp(sh) : sh \in {<<>>, <<1, 2>>, <<2, 1>>}}
    \cup {Ramp(<<n>>) : n \in (0..MaxDim) \ {2}}

SymValues == -MaxSym..MaxSym

\* the symmetry angle 360/n degrees is a whole number of ticks
OnGrid(n) == IF n = 0 THEN TRUE ELSE TicksPerTurn % Abs(n) = 0

PartialValues == -1..MaxSym

\* the calls of create_symmetry the model computes exactly: those on the grid,
\* and those rejected before any angle is computed
SymCalls ==
    {c \in SymValues \X PartialValues :
        IF OnGrid(c[1]) THEN TRUE ELSE PartialRejected(c[1], c[2])}

----------------------------------------------------------------------------
(* The caller's memory and the calls.  heap[1] and heap[2] are the arrays *)
(* the caller passes as strings and displacement; a returned array is     *)
(* stored at the next address.  last is the outcome of the call the       *)
(* caller has just made; the caller looks at it, drops the returned array *)
(* and goes on to its next call.                                          *)

Caller == [strings |-> 1, displacement |-> 2]

Held(h) == SubSeq(h, 1, 2)

\* variant: the result is written into the strings array
Returned_InPlace(h, out) ==
    IF IsOk(out) THEN [h EXCEPT ![Caller.strings] = out.value] ELSE h

\* every function returns the array its last expression builds
Returned(h, out) == IF IsOk(out) THEN Append(h, out.value) ELSE h

Call(op, a, n, k, out, h) ==
    [op |-> op, angle |-> a, N_symmetry |-> n, N_partial |-> k, out |-> out,
     res |-> IF IsOk(out) THEN Len(h) ELSE 0]

NoCall == Call("none", 0, 0, 0, Ok(NoArray), <<>>)

Idle == last = NoCall

Init ==
    /\ \E P \in StringsInputs, D \in DisplacementInputs : heap = <<P, D>>
    /\ last = NoCall

ApplyRotation ==
    /\ Idle
    /\ \E a \in Angles :
        LET out == apply_rotation(heap[Caller.strings], a)
        IN  /\ heap' = Returned(heap, out)
            /\ last' = Call("apply_rotation", a, 0, 0, out, heap')

ApplyDisplacement ==
    /\ Idle
    /\ LET out == apply_displacement(heap[Caller.strings], heap[Caller.displacement])
       IN  /\ heap' = Returned(heap, out)
           /\ last' = Call("apply_displacement", 0, 0, 0, out, heap')

ApplyTransformations ==
    /\ Idle
    /\ \E a \in Angles :
        LET out == apply_transformations(heap[Caller.strings],
                                         heap[Caller.displacement], a)
        IN  /\ heap' = Returned(heap, out)
            /\ last' = Call("apply_transformations", a, 0, 0, out, heap')

CreateSymmetry ==
    /\ Idle
    /\ \E c \in SymCalls, a \in Angles :
        LET out == create_symmetry(c[1], a, c[2])
        IN  /\ heap' = Returned(heap, out)
            /\ last' = Call("create_symmetry", a, c[1], c[2], out, heap')

\* the caller is done with the outcome of its call
Consume ==
    /\ ~Idle
    /\ heap' = Held(heap)
    /\ last' = NoCall

Next == ApplyRotation \/ ApplyDisplacement \/ ApplyTransformations \/ Consume

Spec == Init /\ [][Next]_vars

(* The session of a caller that also builds symmetric shapes. *)
SymStrings == {Ramp(<<n, 2>>) : n \in 0..MaxPoints} \cup {Ramp(<<>>), Ramp(<<MaxDim>>)}

SymDisplacements == {Ramp(<<2>>), Ramp(<<MaxDim>>)}

InitSym ==
    /\ \E P \in SymStrings, D \in SymDisplacements : heap = <<P, D>>
    /\ last = NoCall

NextSym ==
    \/ ApplyRotation
    \/ ApplyDisplacement
    \/ ApplyTransformations
    \/ CreateSymmetry
    \/ Consume

SpecSym == InitSym /\ [][NextSym]_vars

----------------------------------------------------------------------------
(* Properties.  Strings and Displacement are the arrays the latest call   *)
(* was given; a formula about a call speaks of the state the call left.   *)

Strings == heap[Caller.strings]

Displacement == heap[Caller.displacement]

Rank(x) == Len(np_shape(x))

\* shape (N,2)
IsPointSet(x) == Rank(x) = 2 /\ Last(np_shape(x)) = 2

\* the expression apply_displacement(apply_rotation(P, a), d): an exception
\* raised by the inner call leaves the outer call unmade
Composed(P, d, a) ==
    LET inner == apply_rotation(P, a)
    IN  IF IsOk(inner) THEN apply_displacement(inner.value, d) ELSE inner

(* C1: apply_transformations(points, displacement, angle) has the outcome *)
(* of apply_displacement(apply_rotation(points, angle), displacement) for *)
(* every input: the same array, or the same error.  A points input that   *)
(* fails the shape check is reported with the strings shape error also    *)
(* when the displacement is bad; when the rotation succeeds and the       *)
(* displacement is bad, the error is the one of apply_displacement.       *)
C1_Composition ==
    last.op = "apply_transformations" =>
        /\ last.out = Composed(Strings, Displacement, last.angle)
        /\ (Rank(Strings) > 0 /\ BadStringsShape(Strings))
               => last.out = StringsShapeError(Strings)
        /\ (IsOk(apply_rotation(Strings, last.angle))
                /\ BadDisplacementShape(Displacement))
               => last.out = DisplacementShapeError(Displacement)

C1_Witness ==
    /\ last.op = "apply_transformations"
    /\ IsOk(last.out)
    /\ np_shape(Strings) = <<2, 2>>
    /\ last.angle = QuarterTurn
    /\ Displacement.data[<<1>>] # Zero
    /\ last.out.value # Strings

(* C2 as stated: create_symmetry raises the ValueError exactly when       *)
(* N_partial is nonzero and N_partial >= N_symmetry; N_partial = 0 is     *)
(* never rejected, whatever N_symmetry is.                                 *)
C2_AsStated ==
    last.op = "create_symmetry" =>
        (last.out.exc = "ValueError"
            <=> (last.N_partial # 0 /\ last.N_partial >= last.N_symmetry))

(* C2 amended: create_symmetry raises the ValueError exactly when         *)
(* N_partial >= N_symmetry, the boundary N_partial = N_symmetry included; *)
(* N_partial = 0 is never rejected when N_symmetry >= 1, and is rejected  *)
(* when N_symmetry <= 0.                                                   *)
C2_Amended ==
    last.op = "create_symmetry" =>
        /\ last.out.exc = "ValueError" <=> last.N_partial >= last.N_symmetry
        /\ last.out.exc = "ValueError"
               => last.out.info = <<last.N_partial, last.N_symmetry>>
        /\ (last.N_partial = 0 /\ last.N_symmetry >= 1) => IsOk(last.out)

C2_Witness ==
    /\ last.op = "create_symmetry"
    /\ last.N_symmetry = 5
    /\ last.N_partial = 5
    /\ last.out.exc = "ValueError"

(* C3: for every points input whose shape does not end in dimension 2, a  *)
(* 0-d input included, apply_rotation raises the ValueError that reports  *)
(* the shape of the input, and returns no array.                          *)
C3_ShapeError ==
    (last.op = "apply_rotation"
        /\ (Rank(Strings) = 0 \/ Last(np_shape(Strings)) # 2))
    => last.out = StringsShapeError(Strings)

(* C6: apply_displacement raises the ValueError reporting the shape of    *)
(* displacement if and only if that shape is not (2,); with shape (2,)    *)
(* and points of shape (N,2) it returns an array of shape (N,2) with      *)
(* result[i] = points[i] + displacement.                                   *)
C6_Displacement ==
    last.op = "apply_displacement" =>
        /\ last.out = DisplacementShapeError(Displacement)
               <=> np_shape(Displacement) # <<2>>
        /\ last.out.msg = DisplacementShapeError(Displacement).msg
               => np_shape(Displacement) # <<2>>
        /\ (np_shape(Displacement) = <<2>> /\ IsPointSet(Strings)) =>
              /\ IsOk(last.out)
              /\ np_shape(last.out.value) = np_shape(Strings)
              /\ \A i \in 1..np_shape(Strings)[1], j \in 1..2 :
                     last.out.value.data[<<i, j>>]
                         = Plus(Strings.data[<<i, j>>], Displacement.data[<<j>>])

C6_Witness ==
    /\ last.op = "apply_displacement"
    /\ IsOk(last.out)
    /\ np_shape(Strings) = <<2, 2>>
    /\ Displacement.data[<<1>>] # Displacement.data[<<2>>]
    /\ last.out.value.data[<<2, 1>>] # Strings.data[<<2, 1>>]

(* C7 as stated: every call of apply_rotation whose points input has last *)
(* dimension 2 succeeds and returns an array of the shape of the input.   *)
C7_AsStated ==
    (last.op = "apply_rotation" /\ Rank(Strings) > 0 /\ Last(np_shape(Strings)) = 2)
    => (IsOk(last.out) /\ np_shape(last.out.value) = np_shape(Strings))

(* C7 amended: every call of apply_rotation whose points input has shape  *)
(* (N,2) or (2,) succeeds, for every angle, and returns an array of the   *)
(* shape of the input; for shape (0,2) the returned array is empty.       *)
C7_Amended ==
    (last.op = "apply_rotation" /\ Rank(Strings) \in {1, 2}
        /\ Last(np_shape(Strings)) = 2)
    => /\ IsOk(last.out)
       /\ np_shape(last.out.value) = np_shape(Strings)
       /\ DOMAIN last.out.value.data = Indices(np_shape(Strings))
       /\ np_shape(Strings) = <<0, 2>> => last.out.value.data = <<>>

C7_Witness ==
    /\ last.op = "apply_rotation"
    /\ np_shape(Strings) = <<1, 2>>
    /\ last.angle % TicksPerTurn # 0
    /\ IsOk(last.out)
    /\ np_shape(last.out.value) = <<1, 2>>

(* C8: for every point set P of shape (N,2) and every angle a,            *)
(* apply_rotation(apply_rotation(P, a), -a) equals P; and                 *)
(* apply_rotation([[1,0]], quarter turn) = [[0,1]].                       *)
C8_RoundTrip ==
    (last.op = "apply_rotation" /\ IsPointSet(Strings)) =>
        /\ IsOk(last.out)
        /\ LET back == apply_rotation(last.out.value, -last.angle)
           IN  IsOk(back) /\ back.value = Strings
        /\ (np_shape(Strings) = <<1, 2>> /\ Strings.data[<<1, 1>>] = One
                /\ Strings.data[<<1, 2>>] = Zero /\ last.angle = QuarterTurn)
               => (last.out.value.data[<<1, 1>>] = Zero
                      /\ last.out.value.data[<<1, 2>>] = One)

C8_Witness ==
    /\ last.op = "apply_rotation"
    /\ np_shape(Strings) = <<2, 2>>
    /\ last.angle = 1
    /\ IsOk(last.out)
    /\ last.out.value # Strings
    /\ apply_rotation(last.out.value, -1).value = Strings

\* a call create_symmetry(N_symmetry, starting_angle, N_partial) the claims
\* about shapes cover: N_symmetry >= 1 and 0 <= N_partial < N_symmetry
SymCall == last.op = "create_symmetry" /\ last.N_symmetry >= 1

\* one N-th of a full turn
TurnOver(N) == TicksPerTurn \div N

Point(x, i) == <<x.data[<<i, 1>>], x.data[<<i, 2>>]>>

Dot(p, q) == Plus(Times(p[1], q[1]), Times(p[2], q[2]))

Cross(p, q) == Plus(Times(p[1], q[2]), Neg(Times(p[2], q[1])))

(* C4: for N_symmetry >= 1 and 0 < k < N_symmetry,                        *)
(* create_symmetry(N_symmetry, starting_angle, N_partial = k) is the      *)
(* first k points, in order, of the full shape; with k = N_symmetry - 1   *)
(* it is the full shape without its last vertex.                           *)
C4_PartialIsPrefix ==
    (SymCall /\ 0 < last.N_partial /\ last.N_partial < last.N_symmetry) =>
        LET full == create_symmetry(last.N_symmetry, last.angle, 0)
            part == last.out.value
        IN  /\ IsOk(last.out)
            /\ IsOk(full)
            /\ np_shape(part) = <<last.N_partial, 2>>
            /\ np_shape(full.value) = <<last.N_symmetry, 2>>
            /\ \A i \in 1..last.N_partial : Point(part, i) = Point(full.value, i)
            /\ last.N_partial = last.N_symmetry - 1
                   => np_shape(part)[1] = np_shape(full.value)[1] - 1

C4_Witness ==
    /\ SymCall
    /\ last.N_symmetry = 4
    /\ last.N_partial = 3
    /\ IsOk(last.out)
    /\ np_shape(last.out.value) = <<3, 2>>
    /\ Point(last.out.value, 3) # Point(last.out.value, 1)

(* C5: for N_symmetry >= 1 and 0 <= N_partial < N_symmetry the call       *)
(* returns count points (N_symmetry when N_partial = 0, else N_partial);  *)
(* point k (from 0) is (cos, sin) of starting_angle + k * (full turn /    *)
(* N_symmetry), at distance 1 from the origin, and consecutive points are *)
(* one N_symmetry-th of a turn apart; create_symmetry(4) is the square    *)
(* (1,0), (0,1), (-1,0), (0,-1).                                           *)
C5_Polygon ==
    (SymCall /\ 0 <= last.N_partial /\ last.N_partial < last.N_symmetry) =>
        LET count == IF last.N_partial = 0 THEN last.N_symmetry ELSE last.N_partial
            step  == TurnOver(last.N_symmetry)
            gon   == last.out.value
        IN  /\ IsOk(last.out)
            /\ np_shape(gon) = <<count, 2>>
            /\ \A i \in 1..count :
                   /\ Point(gon, i) = <<np_cos(last.angle + (i - 1) * step),
                                        np_sin(last.angle + (i - 1) * step)>>
                   /\ Dot(Point(gon, i), Point(gon, i)) = One
            /\ \A i \in 1..(count - 1) :
                   /\ Dot(Point(gon, i), Point(gon, i + 1)) = np_cos(step)
                   /\ Cross(Point(gon, i), Point(gon, i + 1)) = np_sin(step)
            /\ (last.N_symmetry = 4 /\ last.N_partial = 0 /\ last.angle = 0) =>
                   /\ Point(gon, 1) = <<Whole(1), Whole(0)>>
                   /\ Point(gon, 2) = <<Whole(0), Whole(1)>>
                   /\ Point(gon, 3) = <<Whole(-1), Whole(0)>>
                   /\ Point(gon, 4) = <<Whole(0), Whole(-1)>>

C5_Witness ==
    /\ SymCall
    /\ last.N_symmetry = 6
    /\ last.N_partial = 0
    /\ last.angle = 1
    /\ IsOk(last.out)
    /\ np_shape(last.out.value) = <<6, 2>>

\* apply_rotation applied n times
RECURSIVE RotatedTimes(_, _, _)
RotatedTimes(x, angle, n) ==
    IF n = 0 THEN Ok(x)
    ELSE LET prev == RotatedTimes(x, angle, n - 1)
         IN  IF IsOk(prev) THEN apply_rotation(prev.value, angle) ELSE prev

(* C9: for N_symmetry >= 1 the full shape is symmetric under rotation by  *)
(* one N_symmetry-th of a turn: apply_rotation of it by that angle equals *)
(* create_symmetry(N_symmetry, starting_angle + that angle), which has    *)
(* point k at the position of point (k+1) mod N_symmetry; N_symmetry      *)
(* such rotations return the original array.                               *)
C9_Symmetric ==
    (SymCall /\ last.N_partial = 0) =>
        LET N    == last.N_symmetry
            step == TurnOver(N)
            gon  == last.out.value
            rot  == apply_rotation(gon, step)
        IN  /\ IsOk(last.out)
            /\ IsOk(rot)
            /\ rot = create_symmetry(N, last.angle + step, 0)
            /\ \A i \in 1..N : Point(rot.value, i) = Point(gon, (i % N) + 1)
            /\ RotatedTimes(gon, step, N) = Ok(gon)

C9_Witness ==
    /\ SymCall
    /\ last.N_partial = 0
    /\ last.N_symmetry = 3
    /\ IsOk(last.out)
    /\ apply_rotation(last.out.value, TurnOver(3)).value # last.out.value
    /\ Point(apply_rotation(last.out.value, TurnOver(3)).value, 3)
           = Point(last.out.value, 1)

====
